---- MODULE Spec2Model ----
(***************************************************************************)
(* The request gatekeeper of the "User Agent 402" library: handleRequest   *)
(* and the effect functions it composes (getFromCache, determineUserState, *)
(* checkRateLimit, checkFreeRateLimit, chargeUser), over a Deno KV store.  *)
(* The library's listing is src/DEMO_README.md, lines 442-920.             *)
(*                                                                         *)
(* Every await of the listing is a suspension point, so every KV call is   *)
(* one atomic step of the request (or of the charge task) that makes it,   *)
(* and steps of different requests interleave freely.  A KV call may fail  *)
(* (the store throws), which the listing's try/catch blocks turn into an   *)
(* err Result.                                                             *)
(***************************************************************************)
EXTENDS Integers, FiniteSets, Sequences, TLC

(* ------------------------------ bounds -------------------------------- *)

\* Requests received in one behaviour (handleRequest calls).
MaxRequests == 2

\* Seconds the clock may advance in one behaviour.
MaxTicks == 2

\* Largest balance an account starts with.
MaxBalance == 2

\* chargeUser calls made one after another in SpecCharge.
MaxCalls == 3

\* Requests received while one account is followed (SpecAccount).
MaxAccountRequests == 3

\* Payment webhooks received in one behaviour (handlePaymentWebhook calls).
MaxTopUps == 1

(* ----------------------------- constants ------------------------------ *)

\* `config.freeRateLimitResetSeconds * 1000`: milliseconds per second.
MsPerSecond == 1000

\* Status codes of createSuccessResponse / createOptionsResponse and of
\* createPaymentRequiredResponse.
StatusOk == 200

StatusPaymentRequired == 402

(* ------------------------------ inputs -------------------------------- *)

\* Request slots: at most two requests are in flight at a time.
Reqs == {1, 2}

\* The task slot of the payment webhook, the other writer of accounts.
WebhookSlot == 0

\* Slots of the tasks that read and write accounts.
Slots == Reqs \cup {WebhookSlot}

\* Bearer tokens a request may carry; NoToken is the absent header.
Tokens == {"t1"}

NoToken == "-"

\* What `${user.access_token}` gives for an account stored without the
\* field.
Undefined == "undefined"

\* Identities of the rate limiter: a token, the fallback 'anonymous', or
\* the access_token of an account that has none.
Ids == Tokens \cup {"anonymous", Undefined}

\* Cache keys (createCacheKey of the request's path, query and format).
Keys == {"k1"}

Methods == {"GET", "OPTIONS"}

\* Config: version, freeRatelimit, priceCredit, freeRateLimitResetSeconds
\* and cacheSeconds (0: caching disabled).
Configs ==
    {[version |-> 1, freeRatelimit |-> n, priceCredit |-> n,
      freeRateLimitResetSeconds |-> 1, cacheSeconds |-> n - 1] : n \in {1, 2}}

\* Response formats.
Formats == {"html", "markdown", "json"}

\* Pathnames, as the pieces `pathname.split('.')` yields: their last piece
\* is the extension when the path has a dot.
Pathnames ==
    {<<"/x">>, <<"/x", "html">>, <<"/x", "HTML">>, <<"/x", "md">>,
     <<"/x", "markdown">>, <<"/x", "txt">>, <<"/x:a=1">>}

\* Accept headers, as the media types they list; <<>> is the absent header.
AcceptHeaders ==
    {<<>>, <<"text/html">>, <<"text/markdown">>,
     <<"text/markdown", "text/html">>, <<"application/json">>}

\* Query strings, as the (name, value) entries of URLSearchParams in the
\* order of the URL; names and values are decoded, so they may hold '&',
\* '=' and ':' (/x?a%3D1%26b=2 has the one name "a=1&b").
SearchParams ==
    {<<>>, << <<"a", "1">> >>,
     << <<"a", "1">>, <<"b", "2">> >>, << <<"b", "2">>, <<"a", "1">> >>,
     << <<"a", "1&b=2">> >>, << <<"a", "1:">> >>, << <<"a=1&b", "2">> >>,
     << <<"a", "1">>, <<"a", "2">> >>, << <<"a", "2">>, <<"a", "1">> >>}

(* --------------------------- store values ----------------------------- *)

\* kv.get(...).value === null
NoUser == [exists |-> FALSE, balance |-> 0, access_token |-> Undefined]

\* A StripeUser stored under `user:${access_token}`, as the library's tests
\* store it: the account under key t carries access_token t.
User(t, b) == [exists |-> TRUE, balance |-> b, access_token |-> t]

\* The account handleRegister stores under `user:${userId}`: id, email, name,
\* passwordHash, balance and created_at, and no access_token.
RegisteredUser(b) == [exists |-> TRUE, balance |-> b, access_token |-> Undefined]

\* `{ ...user, balance: b }`: the account with another balance.
WithBalance(user, b) == [user EXCEPT !.balance = b]

NoRecord == [exists |-> FALSE, count |-> 0, resetTime |-> 0]

Record(c, t) == [exists |-> TRUE, count |-> c, resetTime |-> t]

NoEntry == [exists |-> FALSE, value |-> "", expireAt |-> 0]

Entry(v, t) == [exists |-> TRUE, value |-> v, expireAt |-> t]

VARIABLES
    config,     \* the Config handleRequest was built with
    now,        \* Date.now(), in milliseconds
    kvUsers,    \* KV keys user:<token>
    kvRate,     \* KV keys ratelimit:<id>
    kvCache,    \* KV keys cache:...
    rq,         \* per slot: the handleRequest call in it
    ch,         \* per slot: the chargeUser call started from it
    received,   \* handleRequest calls so far
    calls,      \* direct chargeUser calls so far (SpecCharge)
    topups      \* handlePaymentWebhook calls so far

vars == <<config, now, kvUsers, kvRate, kvCache, rq, ch, received, calls,
          topups>>

\* kv.get([`user:${k}`]).value: no account is stored under a key that is
\* not a token.
KvGetUser(k) == IF k \in DOMAIN kvUsers THEN kvUsers[k] ELSE NoUser

(* ------------------------- request records ---------------------------- *)

NoState == [kind |-> "none", id |-> "", balance |-> 0]

NoData == [count |-> 0, resetTime |-> 0]

NoMessage == [kind |-> "none", limit |-> 0, seconds |-> 0]

\* The Context of the handler call: not built, or built with or without a
\* user.
NoContext == [built |-> FALSE, user |-> NoUser]

IdleRequest ==
    [pc |-> "Idle", method |-> "GET", token |-> NoToken,
     pathname |-> <<"/x">>, searchParams |-> <<>>, acceptHeader |-> <<>>,
     format |-> "", key |-> "k1", contentType |-> "",
     cacheHit |-> FALSE, userState |-> NoState,
     rateLimitData |-> NoData, rateLimitResult |-> "none", remaining |-> 0,
     status |-> 0, xcache |-> "", body |-> "", message |-> NoMessage,
     thrown |-> "", context |-> NoContext, ops |-> {}]

IdleCharge ==
    [pc |-> "idle", userId |-> "", amount |-> 0, balance0 |-> 0,
     user |-> NoUser, result |-> "none", value |-> 0, stored |-> FALSE]

Terminal == {"Respond", "PaymentRequired", "Threw"}

(* --------------------------- pure functions --------------------------- *)

\* String.prototype.toLowerCase on the path pieces modelled.
ToLowerCase(str) ==
    CASE str = "HTML" -> "html"
      [] OTHER -> str

\* `header.includes(type)` for a header listing media types.
Includes(header, type) == \E i \in 1..Len(header) : header[i] = type

\* A getResponseFormat that lets the Accept header decide first.
getResponseFormat_AcceptFirst(pathname, acceptHeader) ==
    LET ext == ToLowerCase(pathname[Len(pathname)])
    IN IF Includes(acceptHeader, "text/html") THEN "html"
       ELSE IF Includes(acceptHeader, "text/markdown") THEN "markdown"
       ELSE IF ext = "html" THEN "html"
       ELSE IF ext \in {"md", "markdown"} THEN "markdown"
       ELSE "json"

\* getResponseFormat: the lower-cased last piece of pathname.split('.')
\* decides when it is html, md or markdown; otherwise the Accept header.
getResponseFormat(pathname, acceptHeader) ==
    LET ext == ToLowerCase(pathname[Len(pathname)])
    IN IF ext = "html" THEN "html"
       ELSE IF ext \in {"md", "markdown"} THEN "markdown"
       ELSE IF Includes(acceptHeader, "text/html") THEN "html"
       ELSE IF Includes(acceptHeader, "text/markdown") THEN "markdown"
       ELSE "json"

\* Array.prototype.join.
RECURSIVE Join(_, _)
Join(strs, sep) ==
    IF Len(strs) = 0 THEN ""
    ELSE IF Len(strs) = 1 THEN strs[1]
    ELSE strs[1] \o sep \o Join(Tail(strs), sep)

\* `a.localeCompare(b)` on the parameter names modelled, as a rank.
LocaleRank(name) ==
    CASE name = "a" -> 1
      [] name = "a=1&b" -> 2
      [] name = "b" -> 3
      [] OTHER -> 4

\* `.sort(([a], [b]) => a.localeCompare(b))`: a stable sort by name.
RECURSIVE SortByName(_)
SortByName(entries) ==
    IF Len(entries) = 0 THEN <<>>
    ELSE LET sorted == SortByName(SubSeq(entries, 1, Len(entries) - 1))
             last == entries[Len(entries)]
             k == Cardinality({i \in 1..Len(sorted) :
                      LocaleRank(sorted[i][1]) <= LocaleRank(last[1])})
         IN SubSeq(sorted, 1, k) \o <<last>> \o SubSeq(sorted, k + 1, Len(sorted))

\* `.map(([key, value]) => `${key}=${value}`)`.
PairStrings(entries) ==
    [i \in 1..Len(entries) |-> entries[i][1] \o "=" \o entries[i][2]]

\* A createCacheKey that keeps the parameters in the order of the URL.
createCacheKey_Unsorted(cfg, pathname, searchParams, format) ==
    "cache:v" \o ToString(cfg.version) \o ":" \o Join(pathname, ".") \o ":"
        \o Join(PairStrings(searchParams), "&") \o ":" \o format

\* createCacheKey:
\* `cache:v${config.version}:${pathname}:${sortedParams}:${format}`.
createCacheKey(cfg, pathname, searchParams, format) ==
    "cache:v" \o ToString(cfg.version) \o ":" \o Join(pathname, ".") \o ":"
        \o Join(PairStrings(SortByName(searchParams)), "&") \o ":" \o format

\* createSuccessResponse: the Content-Type of a format.
ContentTypeOf(format) ==
    CASE format = "html" -> "text/html"
      [] format = "markdown" -> "text/markdown"
      [] OTHER -> "application/json"

\* markdownToHtml on the bodies modelled: a heading line becomes <h1>.
markdownToHtml(markdown) ==
    CASE markdown = "# t" -> "<h1>t</h1>"
      [] OTHER -> markdown

\* createSuccessResponse: the html format is rendered, the others are not.
FormattedText(responseText, format) ==
    IF format = "html" THEN markdownToHtml(responseText) ELSE responseText

\* MockKV.get / Deno KV expiry: a key never set has no entry, and an entry
\* written with expireIn is gone once Date.now() > expireTime.
KvGetCache(k) ==
    IF k \in DOMAIN kvCache /\ kvCache[k].exists /\ ~(now > kvCache[k].expireAt)
    THEN kvCache[k] ELSE NoEntry

\* MockKV.get's `this.data.delete(keyStr)`: the store after a read of key k,
\* which removes the entry of k when its expireTime has passed.
KvCacheAfterGet(k) ==
    IF k \in DOMAIN kvCache /\ kvCache[k].exists /\ now > kvCache[k].expireAt
    THEN [kvCache EXCEPT ![k] = NoEntry]
    ELSE kvCache

\* A getFromCache that never reports a hit.
CacheResultOf_AlwaysMiss(entry) == "miss"

\* getFromCache: `if (result.value)` is a hit; null and the empty string are
\* falsy and give a miss.
CacheResultOf(entry) ==
    IF entry.exists /\ entry.value # "" THEN "hit" ELSE "miss"

\* handleRequest: `isOk(cacheResult) && cacheResult.value.kind === 'hit'`,
\* given whether the KV read threw and the entry it returned otherwise.
ServedFromCache(failed, entry) == ~failed /\ CacheResultOf(entry) = "hit"

\* A handleRequest that does not return on a hit.
AfterCacheCheck_FallThrough(hit) == "ClassifyUser"

\* handleRequest: a hit returns createSuccessResponse(..., 'HIT') at once;
\* otherwise the request goes on to determineUserState.
AfterCacheCheck(hit) == IF hit THEN "Respond" ELSE "ClassifyUser"

\* A getRateLimitData that already resets at currentTime = resetTime.
getRateLimitData_ResetAtBoundary(rec, currentTime) ==
    IF ~rec.exists \/ currentTime >= rec.resetTime
    THEN [count |-> 0,
          resetTime |-> currentTime
                        + config.freeRateLimitResetSeconds * MsPerSecond]
    ELSE [count |-> rec.count, resetTime |-> rec.resetTime]

\* getRateLimitData: an absent record, or one whose resetTime has passed,
\* counts as 0 with a fresh window; otherwise the stored record is used.
getRateLimitData(rec, currentTime) ==
    IF ~rec.exists \/ currentTime > rec.resetTime
    THEN [count |-> 0,
          resetTime |-> currentTime
                        + config.freeRateLimitResetSeconds * MsPerSecond]
    ELSE [count |-> rec.count, resetTime |-> rec.resetTime]

\* A checkFreeRateLimit that still allows a request at the limit.
LimitExceeded_OffByOne(rateLimitData) ==
    rateLimitData.count > config.freeRatelimit

\* checkFreeRateLimit: `rateLimitData.count >= config.freeRatelimit`.
LimitExceeded(rateLimitData) == rateLimitData.count >= config.freeRatelimit

\* A checkFreeRateLimit whose window slides: every allowed request restarts it.
UpdatedData_Sliding(rateLimitData) ==
    [count |-> rateLimitData.count + 1,
     resetTime |-> now + config.freeRateLimitResetSeconds * MsPerSecond]

\* checkFreeRateLimit: `{ ...rateLimitData, count: rateLimitData.count + 1 }`.
UpdatedData(rateLimitData) ==
    [count |-> rateLimitData.count + 1, resetTime |-> rateLimitData.resetTime]

\* checkFreeRateLimit: `remaining: config.freeRatelimit - updatedData.count`.
Remaining(updatedData) == config.freeRatelimit - updatedData.count

\* An updateRateLimit that increments the count the store holds at the
\* time of the write (an atomic increment).
WrittenRecord_Atomic(id, rateLimitData) ==
    Record(getRateLimitData(kvRate[id], now).count + 1, rateLimitData.resetTime)

\* checkFreeRateLimit / updateRateLimit: the record written for identity id
\* is the data read earlier with its count raised by one; the store is not
\* read again.
WrittenRecord(id, rateLimitData) ==
    Record(UpdatedData(rateLimitData).count, UpdatedData(rateLimitData).resetTime)

\* A determineUserState that files tokenless requests under a token's
\* identity.
determineUserState_AnonymousAsToken(token, failed, user) ==
    IF token = NoToken
    THEN [kind |-> "anonymous", id |-> "t1", balance |-> 0]
    ELSE IF failed \/ ~user.exists
    THEN [kind |-> "anonymous", id |-> token, balance |-> 0]
    ELSE IF user.balance <= 0
    THEN [kind |-> "insufficient_balance", id |-> user.access_token,
          balance |-> user.balance]
    ELSE [kind |-> "authenticated", id |-> user.access_token,
          balance |-> user.balance]

\* A determineUserState that forgets the token when no account is found.
determineUserState_DropsToken(token, failed, user) ==
    IF token = NoToken \/ failed \/ ~user.exists
    THEN [kind |-> "anonymous", id |-> "anonymous", balance |-> 0]
    ELSE IF user.balance <= 0
    THEN [kind |-> "insufficient_balance", id |-> user.access_token,
          balance |-> user.balance]
    ELSE [kind |-> "authenticated", id |-> user.access_token,
          balance |-> user.balance]

\* determineUserState, given the token and the outcome of getUserByToken
\* (failed: the KV call threw; user: the value it returned).  The id is the
\* identity the later stages use: clientId, or user.access_token for an
\* account that was found.
determineUserState(token, failed, user) ==
    IF token = NoToken
    THEN [kind |-> "anonymous", id |-> "anonymous", balance |-> 0]
    ELSE IF failed \/ ~user.exists
    THEN [kind |-> "anonymous", id |-> token, balance |-> 0]
    ELSE IF user.balance <= 0
    THEN [kind |-> "insufficient_balance", id |-> user.access_token,
          balance |-> user.balance]
    ELSE [kind |-> "authenticated", id |-> user.access_token,
          balance |-> user.balance]

\* A checkRateLimit that sends every user state through the free tier.
BypassesFreeLimit_Never(userState) == FALSE

\* checkRateLimit: an authenticated user with a positive balance is allowed
\* without a rate-limit record; every other state goes to checkFreeRateLimit.
BypassesFreeLimit(userState) ==
    userState.kind = "authenticated" /\ userState.balance > 0

\* handleRequest's charge match: chargeUser is called for an authenticated
\* user with a positive balance.
CallsChargeUser(userState) ==
    userState.kind = "authenticated" /\ userState.balance > 0

\* A chargeUser that only asks for a positive balance.
InsufficientFor_PositiveOnly(balance, amount) == balance <= 0

\* A chargeUser without the balance check.
InsufficientFor_Never(balance, amount) == FALSE

\* A chargeUser whose balance check is off by one.
InsufficientFor_OffByOne(balance, amount) == balance < amount - 1

\* chargeUser: `user.balance < amount` is the insufficient-balance error.
InsufficientFor(balance, amount) == balance < amount

\* A chargeUser that subtracts the wrong way round.
ChargedBalance_Swapped(balance, amount) == amount - balance

\* chargeUser: `{ ...user, balance: user.balance - amount }`.
ChargedBalance(balance, amount) == balance - amount

\* The 402 messages of handleRequest.
ExceededMessage ==
    [kind |-> "exceeded", limit |-> config.freeRatelimit,
     seconds |-> config.freeRateLimitResetSeconds]

CheckFailedMessage == [kind |-> "check_failed", limit |-> 0, seconds |-> 0]

(* ------------------------------ Init ---------------------------------- *)

\* The store is persistent and shared with registration, top-ups and the
\* handler: accounts, rate-limit records and cache entries may already be
\* there when the server starts.  An account under key t is one the tests
\* put in the store (`mockKv.set([`user:token123`], testUser)` with
\* access_token "token123") or one handleRegister stored, without
\* access_token.
InitUsers(t) ==
    {NoUser} \cup {User(t, b) : b \in 0..MaxBalance}
             \cup {RegisteredUser(b) : b \in 0..MaxBalance}

\* The accounts under every key of the store.
InitStores(accounts) ==
    {f \in [Tokens -> UNION {accounts[t] : t \in Tokens}] :
        \A t \in Tokens : f[t] \in accounts[t]}

InitRecords(cfg) ==
    {NoRecord, Record(cfg.freeRatelimit, MsPerSecond)}

InitEntries == {NoEntry, Entry("", MsPerSecond), Entry("body", MsPerSecond)}

Init ==
    /\ config \in Configs
    /\ now = 0
    /\ kvUsers \in InitStores([t \in Tokens |-> InitUsers(t)])
    /\ kvRate \in {[i \in Ids |-> rec] : rec \in InitRecords(config)}
    /\ kvCache \in [Keys -> InitEntries]
    /\ rq = [r \in Reqs |-> IdleRequest]
    /\ ch = [r \in Slots |-> IdleCharge]
    /\ received = 0
    /\ calls = 0
    /\ topups = 0

(* ----------------------------- actions -------------------------------- *)

\* Date.now() advances by a second.
Tick ==
    /\ now < MaxTicks * MsPerSecond
    /\ now' = now + MsPerSecond
    /\ UNCHANGED <<config, kvUsers, kvRate, kvCache, rq, ch, received, calls,
                 topups>>

\* A slot is free when its request has ended and the chargeUser call that
\* request started has returned.
Free(r) == rq[r].pc \in {"Idle"} \cup Terminal /\ ch[r].pc \in {"idle", "done"}

\* A handleRequest without the OPTIONS shortcut.
Arrive_NoPreflight(r, method, token, key) ==
    /\ Free(r)
    /\ \A q \in Reqs : q < r => ~Free(q)
    /\ received' = received + 1
    /\ ch' = [ch EXCEPT ![r] = IdleCharge]
    /\ rq' = [rq EXCEPT ![r] =
                [IdleRequest EXCEPT !.pc = "CacheCheck",
                    !.method = method, !.token = token, !.key = key,
                    !.format = getResponseFormat(IdleRequest.pathname,
                                                 IdleRequest.acceptHeader)]]
    /\ UNCHANGED <<config, now, kvUsers, kvRate, kvCache, calls, topups>>

\* handleRequest is called: an OPTIONS request is answered at once, any
\* other request is parsed and goes on to the cache read.  The request takes
\* the first free slot (slots are names only).  The request has the path
\* /x, no query and no Accept header; key stands for its cache key.
Arrive(r, method, token, key) ==
    /\ Free(r)
    /\ \A q \in Reqs : q < r => ~Free(q)
    /\ received' = received + 1
    /\ ch' = [ch EXCEPT ![r] = IdleCharge]
    /\ rq' = [rq EXCEPT ![r] =
                IF method = "OPTIONS"
                THEN [IdleRequest EXCEPT !.pc = "Respond", !.method = method,
                         !.token = token, !.key = key, !.status = StatusOk]
                ELSE [IdleRequest EXCEPT !.pc = "CacheCheck",
                         !.method = method, !.token = token, !.key = key,
                         !.format = getResponseFormat(IdleRequest.pathname,
                                                      IdleRequest.acceptHeader)]]
    /\ UNCHANGED <<config, now, kvUsers, kvRate, kvCache, calls, topups>>

\* handleRequest up to its first await, for a request given by its method,
\* token, path, query and Accept header: the OPTIONS shortcut, then
\* parseRequestData, getResponseFormat and createCacheKey.
ArriveShaped(r, method, token, pathname, searchParams, acceptHeader) ==
    /\ Free(r)
    /\ \A q \in Reqs : q < r => ~Free(q)
    /\ received' = received + 1
    /\ ch' = [ch EXCEPT ![r] = IdleCharge]
    /\ rq' = [rq EXCEPT ![r] =
                IF method = "OPTIONS"
                THEN [IdleRequest EXCEPT !.pc = "Respond", !.method = method,
                         !.token = token, !.pathname = pathname,
                         !.searchParams = searchParams,
                         !.acceptHeader = acceptHeader, !.status = StatusOk]
                ELSE LET responseFormat == getResponseFormat(pathname, acceptHeader)
                     IN [IdleRequest EXCEPT !.pc = "CacheCheck",
                            !.method = method, !.token = token,
                            !.pathname = pathname,
                            !.searchParams = searchParams,
                            !.acceptHeader = acceptHeader,
                            !.format = responseFormat,
                            !.key = createCacheKey(config, pathname,
                                        searchParams, responseFormat)]]
    /\ UNCHANGED <<config, now, kvUsers, kvRate, kvCache, calls, topups>>

\* A request arrives at handleRequest.
Receive(r, method, token, key) ==
    /\ received < MaxRequests
    /\ Arrive(r, method, token, key)

\* `await getFromCache(kv)(cacheKey)`: a hit is answered from the cache; a
\* miss or a failed read goes on to determineUserState.  A read that does
\* not fail removes the entry it finds expired.
CacheCheck(r, failed) ==
    /\ rq[r].pc = "CacheCheck"
    /\ LET entry == KvGetCache(rq[r].key)
       IN rq' = [rq EXCEPT ![r] =
                   IF ServedFromCache(failed, entry)
                   THEN [@ EXCEPT !.pc = AfterCacheCheck(TRUE),
                            !.cacheHit = TRUE,
                            !.status = StatusOk, !.xcache = "HIT",
                            !.contentType = ContentTypeOf(rq[r].format),
                            !.body = FormattedText(entry.value, rq[r].format),
                            !.ops = @ \cup {"cache.get"}]
                   ELSE [@ EXCEPT !.pc = AfterCacheCheck(FALSE),
                            !.ops = @ \cup {"cache.get"}]]
    /\ kvCache' = IF failed THEN kvCache ELSE KvCacheAfterGet(rq[r].key)
    /\ UNCHANGED <<config, now, kvUsers, kvRate, ch, received, calls,
                 topups>>

\* `await determineUserState(kv)(requestData)`: with a token the account is
\* looked up (getUserByToken), without one no store call is made.
ClassifyUser(r, failed) ==
    /\ rq[r].pc = "ClassifyUser"
    /\ rq[r].token = NoToken => ~failed
    /\ rq' = [rq EXCEPT ![r] =
                [@ EXCEPT !.pc = "RateLimitCheck",
                    !.userState =
                        determineUserState(rq[r].token, failed,
                            IF rq[r].token = NoToken THEN NoUser
                            ELSE kvUsers[rq[r].token]),
                    !.ops = IF rq[r].token = NoToken THEN @
                            ELSE @ \cup {"user.get"}]]
    /\ UNCHANGED <<config, now, kvUsers, kvRate, kvCache, ch, received, calls,
                 topups>>

\* A checkFreeRateLimit that also counts the requests it rejects.
RateLimitCheck_CountsRejected(r, failed) ==
    /\ rq[r].pc = "RateLimitCheck"
    /\ BypassesFreeLimit(rq[r].userState) => ~failed
    /\ LET data == getRateLimitData(kvRate[rq[r].userState.id], now)
       IN rq' = [rq EXCEPT ![r] =
                   IF BypassesFreeLimit(rq[r].userState)
                   THEN [@ EXCEPT !.pc = "Charge",
                            !.rateLimitResult = "allowed",
                            !.remaining = rq[r].userState.balance]
                   ELSE IF failed
                   THEN [@ EXCEPT !.pc = "PaymentRequired",
                            !.rateLimitResult = "err",
                            !.status = StatusPaymentRequired,
                            !.message = CheckFailedMessage,
                            !.ops = @ \cup {"ratelimit.get"}]
                   ELSE IF LimitExceeded(data)
                   THEN [@ EXCEPT !.pc = "PaymentRequired",
                            !.rateLimitData = data,
                            !.rateLimitResult = "exceeded",
                            !.status = StatusPaymentRequired,
                            !.message = ExceededMessage,
                            !.ops = @ \cup {"ratelimit.get"}]
                   ELSE [@ EXCEPT !.pc = "RateLimitUpdate",
                            !.rateLimitData = data,
                            !.ops = @ \cup {"ratelimit.get"}]]
    /\ kvRate' = IF rq'[r].rateLimitResult = "exceeded"
                 THEN [kvRate EXCEPT ![rq[r].userState.id] =
                         Record(@.count + 1, @.resetTime)]
                 ELSE kvRate
    /\ UNCHANGED <<config, now, kvUsers, kvCache, ch, received, calls,
                 topups>>

\* `await checkRateLimit(kv, config)(userState)`, up to the read of
\* checkFreeRateLimit: the record is fetched and compared with the limit.
RateLimitCheck(r, failed) ==
    /\ rq[r].pc = "RateLimitCheck"
    /\ BypassesFreeLimit(rq[r].userState) => ~failed
    /\ LET data == getRateLimitData(kvRate[rq[r].userState.id], now)
       IN rq' = [rq EXCEPT ![r] =
                   IF BypassesFreeLimit(rq[r].userState)
                   THEN [@ EXCEPT !.pc = "Charge",
                            !.rateLimitResult = "allowed",
                            !.remaining = rq[r].userState.balance]
                   ELSE IF failed
                   THEN [@ EXCEPT !.pc = "PaymentRequired",
                            !.rateLimitResult = "err",
                            !.status = StatusPaymentRequired,
                            !.message = CheckFailedMessage,
                            !.ops = @ \cup {"ratelimit.get"}]
                   ELSE IF LimitExceeded(data)
                   THEN [@ EXCEPT !.pc = "PaymentRequired",
                            !.rateLimitData = data,
                            !.rateLimitResult = "exceeded",
                            !.status = StatusPaymentRequired,
                            !.message = ExceededMessage,
                            !.ops = @ \cup {"ratelimit.get"}]
                   ELSE [@ EXCEPT !.pc = "RateLimitUpdate",
                            !.rateLimitData = data,
                            !.ops = @ \cup {"ratelimit.get"}]]
    /\ UNCHANGED <<config, now, kvUsers, kvRate, kvCache, ch, received, calls,
                 topups>>

\* A checkFreeRateLimit that lets the request through when the write of the
\* record fails.
RateLimitUpdate_FailOpen(r, failed) ==
    /\ rq[r].pc = "RateLimitUpdate"
    /\ LET updatedData == UpdatedData(rq[r].rateLimitData)
           id == rq[r].userState.id
       IN /\ kvRate' = IF failed THEN kvRate
                       ELSE [kvRate EXCEPT ![id] =
                               WrittenRecord(id, rq[r].rateLimitData)]
          /\ rq' = [rq EXCEPT ![r] =
                      [@ EXCEPT !.pc = "Charge",
                         !.rateLimitResult = "allowed",
                         !.remaining = Remaining(updatedData),
                         !.ops = @ \cup {"ratelimit.set"}]]
    /\ UNCHANGED <<config, now, kvUsers, kvCache, ch, received, calls,
                 topups>>

\* checkFreeRateLimit's `await updateRateLimit(kv)(clientId, updatedData)`.
RateLimitUpdate(r, failed) ==
    /\ rq[r].pc = "RateLimitUpdate"
    /\ LET updatedData == UpdatedData(rq[r].rateLimitData)
           id == rq[r].userState.id
       IN /\ kvRate' = IF failed THEN kvRate
                       ELSE [kvRate EXCEPT ![id] =
                               WrittenRecord(id, rq[r].rateLimitData)]
          /\ rq' = [rq EXCEPT ![r] =
                      IF failed
                      THEN [@ EXCEPT !.pc = "PaymentRequired",
                               !.rateLimitResult = "err",
                               !.status = StatusPaymentRequired,
                               !.message = CheckFailedMessage,
                               !.ops = @ \cup {"ratelimit.set"}]
                      ELSE [@ EXCEPT !.pc = "Charge",
                               !.rateLimitData = updatedData,
                               !.rateLimitResult = "allowed",
                               !.remaining = Remaining(updatedData),
                               !.ops = @ \cup {"ratelimit.set"}]]
    /\ UNCHANGED <<config, now, kvUsers, kvCache, ch, received, calls,
                 topups>>

\* handleRequest's charge step,
\*   await match(userState).with({kind:'authenticated'}, ...)
\*                         .otherwise(...).exhaustive()
\* ts-pattern's .with runs its handler when the pattern matches, so for an
\* authenticated user chargeUser(kv)(user.access_token, config.priceCredit)
\* is called and its promise is the match's value.  .otherwise then returns
\* that value (or, for the other states, Promise.resolve(ok(null))): a
\* Promise, which has no method `exhaustive`.  The call throws a TypeError
\* outside every try block, so handleRequest rejects; the chargeUser call it
\* started runs on, unobserved.  The statements after the match (the
\* chargeResult test, config.fetch, setCache, the MISS response) are never
\* reached.
Charge(r) ==
    /\ rq[r].pc = "Charge"
    /\ ch' = [ch EXCEPT ![r] =
                IF CallsChargeUser(rq[r].userState)
                THEN [IdleCharge EXCEPT !.pc = "read",
                         !.userId = rq[r].userState.id,
                         !.amount = config.priceCredit,
                         !.balance0 = KvGetUser(rq[r].userState.id).balance]
                ELSE @]
    /\ rq' = [rq EXCEPT ![r] = [@ EXCEPT !.pc = "Threw",
                                   !.thrown = "TypeError"]]
    /\ UNCHANGED <<config, now, kvUsers, kvRate, kvCache, received, calls,
                 topups>>

\* chargeUser, from `await getUserByToken(kv)(userId)` to the balance check:
\* a failed read, a missing account and a balance below the amount each end
\* the call with an err Result.
ChargeRead(r, failed) ==
    /\ ch[r].pc = "read"
    /\ LET user == KvGetUser(ch[r].userId)
       IN ch' = [ch EXCEPT ![r] =
                   IF failed
                   THEN [@ EXCEPT !.pc = "done", !.result = "StoreError"]
                   ELSE IF ~user.exists
                   THEN [@ EXCEPT !.pc = "done", !.result = "NotFound"]
                   ELSE IF InsufficientFor(user.balance, ch[r].amount)
                   THEN [@ EXCEPT !.pc = "done", !.user = user,
                            !.result = "InsufficientBalance"]
                   ELSE [@ EXCEPT !.pc = "write", !.user = user]]
    /\ UNCHANGED <<config, now, kvUsers, kvRate, kvCache, rq, received, calls,
                 topups>>

\* A chargeUser that decrements whatever balance is stored at the time of
\* its write.
ChargeWrite_Atomic(r, failed) ==
    /\ ch[r].pc = "write"
    /\ LET updated == ChargedBalance(kvUsers[ch[r].userId].balance,
                                     ch[r].amount)
       IN /\ kvUsers' = IF failed THEN kvUsers
                        ELSE [kvUsers EXCEPT ![ch[r].userId] =
                                 WithBalance(ch[r].user, updated)]
          /\ ch' = [ch EXCEPT ![r] =
                      IF failed
                      THEN [@ EXCEPT !.pc = "done", !.result = "StoreError"]
                      ELSE [@ EXCEPT !.pc = "done", !.result = "ok",
                               !.value = updated, !.stored = TRUE]]
    /\ UNCHANGED <<config, now, kvRate, kvCache, rq, received, calls,
                 topups>>

\* chargeUser's `await kv.set([`user:${userId}`], updatedUser)`.
ChargeWrite(r, failed) ==
    /\ ch[r].pc = "write"
    /\ LET updated == ChargedBalance(ch[r].user.balance, ch[r].amount)
       IN /\ kvUsers' = IF failed THEN kvUsers
                        ELSE [kvUsers EXCEPT ![ch[r].userId] =
                                 WithBalance(ch[r].user, updated)]
          /\ ch' = [ch EXCEPT ![r] =
                      IF failed
                      THEN [@ EXCEPT !.pc = "done", !.result = "StoreError"]
                      ELSE [@ EXCEPT !.pc = "done", !.result = "ok",
                               !.value = updated, !.stored = TRUE]]
    /\ UNCHANGED <<config, now, kvRate, kvCache, rq, received, calls,
                 topups>>

\* chargeUser(kv)(userId, amount) called directly, as the unit tests call
\* it, once the previous call has returned.
CallChargeUser(userId, amount) ==
    /\ calls < MaxCalls
    /\ ch[1].pc \in {"idle", "done"}
    /\ calls' = calls + 1
    /\ ch' = [ch EXCEPT ![1] =
                [IdleCharge EXCEPT !.pc = "read", !.userId = userId,
                    !.amount = amount,
                    !.balance0 = kvUsers[userId].balance]]
    /\ UNCHANGED <<config, now, kvUsers, kvRate, kvCache, rq, received,
                 topups>>


\* handlePaymentWebhook, from `await request.json()` to the call of kv.get:
\* a body with user_id, credits and transaction_id all truthy.
WebhookReceive(userId, credits) ==
    /\ topups < MaxTopUps
    /\ ch[WebhookSlot].pc \in {"idle", "done"}
    /\ topups' = topups + 1
    /\ ch' = [ch EXCEPT ![WebhookSlot] =
                [IdleCharge EXCEPT !.pc = "topup-read", !.userId = userId,
                    !.amount = credits]]
    /\ UNCHANGED <<config, now, kvUsers, kvRate, kvCache, rq, received,
                 calls>>

\* handlePaymentWebhook's `await context.kv.get([`user:${user_id}`])`: a
\* failed read is caught and answered 500, a missing account 404.
WebhookRead(failed) ==
    /\ ch[WebhookSlot].pc = "topup-read"
    /\ LET user == kvUsers[ch[WebhookSlot].userId]
       IN ch' = [ch EXCEPT ![WebhookSlot] =
                   IF failed
                   THEN [@ EXCEPT !.pc = "done", !.result = "StoreError"]
                   ELSE IF ~user.exists
                   THEN [@ EXCEPT !.pc = "done", !.result = "NotFound"]
                   ELSE [@ EXCEPT !.pc = "topup-write", !.user = user]]
    /\ UNCHANGED <<config, now, kvUsers, kvRate, kvCache, rq, received, calls,
                 topups>>

\* handlePaymentWebhook's `await context.kv.set([`user:${user_id}`],
\* updatedUser)` with balance: user.balance + credits.
WebhookWrite(failed) ==
    /\ ch[WebhookSlot].pc = "topup-write"
    /\ LET updated == ch[WebhookSlot].user.balance + ch[WebhookSlot].amount
       IN /\ kvUsers' = IF failed THEN kvUsers
                        ELSE [kvUsers EXCEPT ![ch[WebhookSlot].userId] =
                                 WithBalance(ch[WebhookSlot].user, updated)]
          /\ ch' = [ch EXCEPT ![WebhookSlot] =
                      IF failed
                      THEN [@ EXCEPT !.pc = "done", !.result = "StoreError"]
                      ELSE [@ EXCEPT !.pc = "topup-log", !.value = updated,
                               !.stored = TRUE]]
    /\ UNCHANGED <<config, now, kvRate, kvCache, rq, received, calls,
                 topups>>

\* handlePaymentWebhook's `await context.kv.set([`transaction:...`], ...)`
\* and its response: 200, or 500 when the transaction record is not stored
\* (the account keeps the credited balance).
WebhookLog(failed) ==
    /\ ch[WebhookSlot].pc = "topup-log"
    /\ ch' = [ch EXCEPT ![WebhookSlot] =
                [@ EXCEPT !.pc = "done",
                    !.result = IF failed THEN "StoreError" ELSE "ok"]]
    /\ UNCHANGED <<config, now, kvUsers, kvRate, kvCache, rq, received, calls,
                 topups>>

\* Credits handleRegister gives a new account.
StartingCredits == 100

\* handleRegister's `await context.kv.set([`user:${userId}`], newUser)`: an
\* account is created under a key that had none (generateUserId gives a
\* fresh id), while the server runs.  A failed set stores nothing and is
\* answered 500.
Register(t) ==
    /\ ~kvUsers[t].exists
    /\ kvUsers' = [kvUsers EXCEPT ![t] = RegisteredUser(StartingCredits)]
    /\ UNCHANGED <<config, now, kvRate, kvCache, rq, ch, received, calls,
                 topups>>

(* -------------------------- specifications ---------------------------- *)

\* Credits a payment webhook carries.
Credits == {1, 2}

Next ==
    \/ Tick
    \/ \E r \in Reqs, m \in Methods, t \in Tokens \cup {NoToken}, k \in Keys :
          Receive(r, m, t, k)
    \/ \E r \in Reqs, failed \in BOOLEAN : CacheCheck(r, failed)
    \/ \E r \in Reqs, failed \in BOOLEAN : ClassifyUser(r, failed)
    \/ \E r \in Reqs, failed \in BOOLEAN : RateLimitCheck(r, failed)
    \/ \E r \in Reqs, failed \in BOOLEAN : RateLimitUpdate(r, failed)
    \/ \E r \in Reqs : Charge(r)
    \/ \E r \in Reqs, failed \in BOOLEAN : ChargeRead(r, failed)
    \/ \E r \in Reqs, failed \in BOOLEAN : ChargeWrite(r, failed)
    \/ \E t \in Tokens : Register(t)
    \/ \E t \in Tokens, c \in Credits : WebhookReceive(t, c)
    \/ \E failed \in BOOLEAN : WebhookRead(failed)
    \/ \E failed \in BOOLEAN : WebhookWrite(failed)
    \/ \E failed \in BOOLEAN : WebhookLog(failed)

\* Concurrent requests against one store.
Spec == Init /\ [][Next]_vars

\* The accounts followed: none yet, one with credit as the tests store it,
\* or one with credit as handleRegister stores it.
AccountsWithCredit(t) ==
    {NoUser} \cup {User(t, b) : b \in 1..MaxBalance}
             \cup {RegisteredUser(b) : b \in 1..MaxBalance}

\* The store holds at most one account, with credit, no rate-limit record,
\* and at most a cached body.
InitAccount ==
    /\ config \in Configs
    /\ now = 0
    /\ kvUsers \in InitStores([t \in Tokens |-> AccountsWithCredit(t)])
    /\ kvRate = [i \in Ids |-> NoRecord]
    /\ kvCache \in [Keys -> {NoEntry, Entry("body", MsPerSecond)}]
    /\ rq = [r \in Reqs |-> IdleRequest]
    /\ ch = [r \in Slots |-> IdleCharge]
    /\ received = 0
    /\ calls = 0
    /\ topups = 0

\* A request arrives while the account is being followed.
ReceiveAccount(r, method, token, key) ==
    /\ received < MaxAccountRequests
    /\ Arrive(r, method, token, key)

NextAccount ==
    \/ \E r \in Reqs, m \in Methods, t \in Tokens \cup {NoToken}, k \in Keys :
          ReceiveAccount(r, m, t, k)
    \/ \E r \in Reqs, failed \in BOOLEAN : CacheCheck(r, failed)
    \/ \E r \in Reqs, failed \in BOOLEAN : ClassifyUser(r, failed)
    \/ \E r \in Reqs, failed \in BOOLEAN : RateLimitCheck(r, failed)
    \/ \E r \in Reqs, failed \in BOOLEAN : RateLimitUpdate(r, failed)
    \/ \E r \in Reqs : Charge(r)
    \/ \E r \in Reqs, failed \in BOOLEAN : ChargeRead(r, failed)
    \/ \E r \in Reqs, failed \in BOOLEAN : ChargeWrite(r, failed)
    \/ \E t \in Tokens : Register(t)
    \/ \E t \in Tokens, c \in Credits : WebhookReceive(t, c)
    \/ \E failed \in BOOLEAN : WebhookRead(failed)
    \/ \E failed \in BOOLEAN : WebhookWrite(failed)
    \/ \E failed \in BOOLEAN : WebhookLog(failed)

\* A longer series of requests against the store of one account, within
\* one rate-limit window.
SpecAccount == InitAccount /\ [][NextAccount]_vars

\* No account, no rate-limit record and no cache entry is stored.
InitParse ==
    /\ config \in Configs
    /\ now = 0
    /\ kvUsers = [t \in Tokens |-> NoUser]
    /\ kvRate = [i \in Ids |-> NoRecord]
    /\ kvCache = [k \in {} |-> NoEntry]
    /\ rq = [r \in Reqs |-> IdleRequest]
    /\ ch = [r \in Slots |-> IdleCharge]
    /\ received = 0
    /\ calls = 0
    /\ topups = 0

\* A GET without token arrives and is parsed.
ReceiveParsed(r, pathname, searchParams, acceptHeader) ==
    /\ received < MaxRequests
    /\ ArriveShaped(r, "GET", NoToken, pathname, searchParams, acceptHeader)

NextParse ==
    \E r \in Reqs, p \in Pathnames, q \in SearchParams, a \in AcceptHeaders :
        ReceiveParsed(r, p, q, a)

\* The synchronous head of handleRequest (parseRequestData,
\* getResponseFormat, createCacheKey) applied to two requests.
SpecParse == InitParse /\ [][NextParse]_vars

\* Shapes of the requests followed through the whole pipeline.
ShapedMethods == {"GET", "POST", "OPTIONS"}

ShapedPathnames == {<<"/x">>, <<"/x", "html">>, <<"/x", "md">>}

ShapedSearchParams == {<<>>, << <<"b", "2">>, <<"a", "1">> >>}

ShapedAcceptHeaders == {<<>>, <<"text/html">>}

\* Contents of the cache: nothing, or one text (empty, plain, or a markdown
\* heading) stored under the key of /x (as JSON) or of /x.html.
CachedBodies(cfg) ==
    {[k \in {} |-> NoEntry]} \cup
    {[k \in {createCacheKey(cfg, p, <<>>, getResponseFormat(p, <<>>))} |->
         Entry(v, MsPerSecond)] :
       p \in {<<"/x">>, <<"/x", "html">>}, v \in {"", "body", "# t"}}

\* No account, one without credit, or one with credit.
ShapedAccounts(t) == {NoUser, User(t, 0), User(t, MaxBalance)}

InitShaped ==
    /\ config \in Configs
    /\ now = 0
    /\ kvUsers \in InitStores([t \in Tokens |-> ShapedAccounts(t)])
    /\ kvRate \in {[i \in Ids |-> rec] : rec \in InitRecords(config)}
    /\ kvCache \in CachedBodies(config)
    /\ rq = [r \in Reqs |-> IdleRequest]
    /\ ch = [r \in Slots |-> IdleCharge]
    /\ received = 0
    /\ calls = 0
    /\ topups = 0

\* The one request of a behaviour arrives.
ReceiveShaped(r, method, token, pathname, searchParams, acceptHeader) ==
    /\ received = 0
    /\ ArriveShaped(r, method, token, pathname, searchParams, acceptHeader)

NextShaped ==
    \/ Tick
    \/ \E r \in Reqs, m \in ShapedMethods, t \in Tokens \cup {NoToken},
          p \in ShapedPathnames, q \in ShapedSearchParams,
          a \in ShapedAcceptHeaders :
          ReceiveShaped(r, m, t, p, q, a)
    \/ \E r \in Reqs, failed \in BOOLEAN : CacheCheck(r, failed)
    \/ \E r \in Reqs, failed \in BOOLEAN : ClassifyUser(r, failed)
    \/ \E r \in Reqs, failed \in BOOLEAN : RateLimitCheck(r, failed)
    \/ \E r \in Reqs, failed \in BOOLEAN : RateLimitUpdate(r, failed)
    \/ \E r \in Reqs : Charge(r)
    \/ \E r \in Reqs, failed \in BOOLEAN : ChargeRead(r, failed)
    \/ \E r \in Reqs, failed \in BOOLEAN : ChargeWrite(r, failed)

\* One request of any shape, followed through handleRequest.
SpecShaped == InitShaped /\ [][NextShaped]_vars

\* Amounts chargeUser is called with directly.
Amounts == {0, 1, 2}

NextCharge ==
    \/ \E t \in Tokens, a \in Amounts : CallChargeUser(t, a)
    \/ \E r \in Reqs, failed \in BOOLEAN : ChargeRead(r, failed)
    \/ \E r \in Reqs, failed \in BOOLEAN : ChargeWrite(r, failed)

\* chargeUser called directly, one call after another.
SpecCharge == Init /\ [][NextCharge]_vars

NextTopUp ==
    \/ \E t \in Tokens, a \in Amounts : CallChargeUser(t, a)
    \/ \E failed \in BOOLEAN : ChargeRead(1, failed)
    \/ \E failed \in BOOLEAN : ChargeWrite(1, failed)
    \/ \E t \in Tokens, c \in Credits : WebhookReceive(t, c)
    \/ \E failed \in BOOLEAN : WebhookRead(failed)
    \/ \E failed \in BOOLEAN : WebhookWrite(failed)
    \/ \E failed \in BOOLEAN : WebhookLog(failed)

\* chargeUser called directly while payment webhooks credit accounts.
SpecTopUp == Init /\ [][NextTopUp]_vars

(* ------------------------------ claims -------------------------------- *)

\* Identity id has used up its free tier: its record is in its window and
\* holds a count at the limit.
Exhausted(id) ==
    /\ kvRate[id].exists
    /\ ~(now > kvRate[id].resetTime)
    /\ kvRate[id].count >= config.freeRatelimit

\* Stages at or after the handler call in the pipeline the spec describes.
HandlerReached == {"InvokeHandler", "CacheStore", "Respond"}

\* C1: requests of one free-tier identity made one after another inside a
\* window: while the count is below freeRatelimit the request is answered
\* 200, and at the limit it is answered 402 with the message naming the
\* limit and the window.  Stated for the first request of a run.
C1_FreeTierRequestsServed ==
    \A r \in Reqs :
        (/\ received = 1
         /\ rq[r].pc \in Terminal
         /\ rq[r].userState.kind \in {"anonymous", "insufficient_balance"})
        => \/ rq[r].rateLimitResult = "allowed" /\ rq[r].status = StatusOk
           \/ /\ rq[r].rateLimitResult = "exceeded"
              /\ rq[r].status = StatusPaymentRequired
              /\ rq[r].message = ExceededMessage
           \/ rq[r].rateLimitResult = "err"

\* C2: a request answered from the cache has made the cache read and no
\* other store call: no user lookup, no rate-limit read or write, no
\* chargeUser call; it has ended in Respond with 200 and X-Cache: HIT.
C2_CacheHitTouchesNothingElse ==
    \A r \in Reqs :
        rq[r].cacheHit
        => /\ rq[r].pc = "Respond"
           /\ rq[r].status = StatusOk
           /\ rq[r].xcache = "HIT"
           /\ rq[r].ops = {"cache.get"}
           /\ rq[r].userState = NoState
           /\ rq[r].rateLimitResult = "none"
           /\ ch[r].pc = "idle"

\* C2 witness: a hit for a request that bears the token of a stored account.
C2_Witness ==
    \E r \in Reqs :
        /\ rq[r].cacheHit
        /\ rq[r].token \in Tokens
        /\ kvUsers[rq[r].token].exists

C4_ChargeDeductsExactly ==
    /\ \A t \in Tokens : kvUsers[t].balance >= 0
    /\ \A r \in Reqs :
          (/\ ch[r].pc = "done"
           /\ ch[r].user.exists
           /\ ch[r].balance0 >= ch[r].amount
           /\ ch[r].result # "StoreError")
          => /\ ch[r].result = "ok"
             /\ ch[r].value = ch[r].balance0 - ch[r].amount
             /\ kvUsers[ch[r].userId] =
                    WithBalance(ch[r].user, ch[r].balance0 - ch[r].amount)

\* C4 witness: a second call has brought the balance to zero.
C4_Witness ==
    /\ calls = 2
    /\ ch[1].pc = "done"
    /\ ch[1].result = "ok"
    /\ ch[1].amount > 0
    /\ ch[1].value = 0
    /\ kvUsers[ch[1].userId].balance = 0

\* C5: a chargeUser call that finds a stored balance below the amount
\* returns the insufficient-balance error without attempting a write: the
\* stored account is as it was.
C5_InsufficientChargeWritesNothing ==
    \A r \in Reqs :
        /\ ch[r].pc = "write" => ch[r].user.balance >= ch[r].amount
        /\ (/\ ch[r].pc = "done"
            /\ ch[r].user.exists
            /\ ch[r].balance0 < ch[r].amount)
           => /\ ch[r].result = "InsufficientBalance"
              /\ ~ch[r].stored
              /\ kvUsers[ch[r].userId] = WithBalance(ch[r].user, ch[r].balance0)

\* C5 witness: a call refused although the account holds some credit.
C5_Witness ==
    /\ ch[1].pc = "done"
    /\ ch[1].result = "InsufficientBalance"
    /\ ch[1].balance0 > 0
    /\ kvUsers[ch[1].userId].balance = ch[1].balance0

\* C6: the rate limiter's write is not an increment of what the store
\* holds: an allowed request stores the count it read earlier plus one, with
\* the resetTime it read, whatever other requests have written in between.
C6_WriteStoresReadCountPlusOne ==
    [][\A r \in Reqs :
          (rq[r].pc = "RateLimitUpdate" /\ rq'[r].rateLimitResult = "allowed")
          => kvRate'[rq[r].userState.id] =
                Record(rq[r].rateLimitData.count + 1,
                       rq[r].rateLimitData.resetTime)]_vars

\* C6 witness: two requests of one identity were both allowed off the same
\* read, the store holds that count plus one, and with it more requests
\* were allowed in the window than freeRatelimit.
C6_Witness ==
    \E r1, r2 \in Reqs :
        /\ r1 # r2
        /\ rq[r1].rateLimitResult = "allowed"
        /\ rq[r2].rateLimitResult = "allowed"
        /\ ~BypassesFreeLimit(rq[r1].userState)
        /\ ~BypassesFreeLimit(rq[r2].userState)
        /\ rq[r1].userState.id = rq[r2].userState.id
        /\ rq[r1].rateLimitData = rq[r2].rateLimitData
        /\ rq[r1].rateLimitData.count = 1
        /\ config.freeRatelimit = 1
        /\ kvRate[rq[r1].userState.id] =
              Record(1, rq[r1].rateLimitData.resetTime)

\* C7 as claimed: two requests of one account that both read the balance b,
\* priceCredit <= b < 2 * priceCredit, and were both charged, both reach the
\* handler.
C7_BothChargedRequestsReachHandler ==
    \A r1, r2 \in Reqs :
        (/\ r1 # r2
         /\ ch[r1].result = "ok"
         /\ ch[r2].result = "ok"
         /\ ch[r1].userId = ch[r2].userId
         /\ ch[r1].user.balance = ch[r2].user.balance
         /\ ch[r1].amount <= ch[r1].user.balance
         /\ ch[r1].user.balance < 2 * ch[r1].amount)
        => rq[r1].pc \in HandlerReached /\ rq[r2].pc \in HandlerReached

\* C8 as claimed: a request leaves the Charge stage for InvokeHandler (the
\* charge step succeeded) or for PaymentRequired (it failed).
C8_ChargeLeadsToHandlerOrPaymentRequired ==
    [][\A r \in Reqs :
          (rq[r].pc = "Charge" /\ rq'[r].pc # "Charge")
          => rq'[r].pc \in {"InvokeHandler", "PaymentRequired"}]_vars

\* C9 as claimed: every request that has ended has a well-formed response,
\* status 200 or 402; no exception has escaped handleRequest.
C9_EveryRequestGetsAResponse ==
    \A r \in Reqs :
        rq[r].pc \in Terminal
        => /\ rq[r].status \in {StatusOk, StatusPaymentRequired}
           /\ rq[r].thrown = ""

\* C10: the rate-limit read yields count 0 with resetTime = now +
\* freeRateLimitResetSeconds (in ms) exactly when the record is absent or
\* now > resetTime, whatever count is stored; otherwise, also at now =
\* resetTime, it yields the stored count and resetTime.
C10_ExpiredRecordCountsAsZero ==
    [][\A r \in Reqs :
          (/\ rq[r].pc = "RateLimitCheck"
           /\ rq'[r].rateLimitResult \in {"none", "exceeded"}
           /\ rq'[r].pc \in {"RateLimitUpdate", "PaymentRequired"})
          => LET rec == kvRate[rq[r].userState.id]
                 data == rq'[r].rateLimitData
             IN IF ~rec.exists \/ now > rec.resetTime
                THEN /\ data.count = 0
                     /\ data.resetTime =
                           now + config.freeRateLimitResetSeconds * MsPerSecond
                ELSE /\ data.count = rec.count
                     /\ data.resetTime = rec.resetTime]_vars

\* C10 witness: a read has just found a record with a positive count whose
\* resetTime has passed, and counted it as 0.
C10_Witness ==
    \E r \in Reqs :
        /\ rq[r].pc = "RateLimitUpdate"
        /\ kvRate[rq[r].userState.id].exists
        /\ kvRate[rq[r].userState.id].count > 0
        /\ now > kvRate[rq[r].userState.id].resetTime
        /\ rq[r].rateLimitData.count = 0
        /\ rq[r].rateLimitData.resetTime =
              now + config.freeRateLimitResetSeconds * MsPerSecond

\* C11 as claimed: immediately after every rate-limit check that returns
\* Allowed, the count stored for the identity is the count the check read
\* plus one and lies in 0..freeRatelimit, and the remaining quota returned
\* is freeRatelimit minus that stored count, and not negative.
C11_EveryAllowedCheckStoresCount ==
    [][\A r \in Reqs :
          (rq[r].rateLimitResult # "allowed" /\ rq'[r].rateLimitResult = "allowed")
          => LET stored == kvRate'[rq[r].userState.id].count
             IN /\ stored = rq'[r].rateLimitData.count
                /\ stored >= 1
                /\ stored <= config.freeRatelimit
                /\ rq'[r].remaining = config.freeRatelimit - stored
                /\ rq'[r].remaining >= 0]_vars

\* C11: when the free-tier check returns Allowed, the count it has just
\* stored for the identity is the count it read (after the expiry rule) plus
\* one and lies in 0..freeRatelimit, and the remaining quota it returns is
\* freeRatelimit minus that stored count, and not negative; the check of an
\* authenticated account with a positive balance returns Allowed with the
\* balance as the remaining quota and reads and stores no count.
C11_AllowedStoresCountWithinLimit ==
    [][\A r \in Reqs :
          /\ (rq[r].pc = "RateLimitUpdate" /\ rq'[r].rateLimitResult = "allowed")
             => LET stored == kvRate'[rq[r].userState.id].count
                IN /\ stored = rq[r].rateLimitData.count + 1
                   /\ stored >= 0
                   /\ stored <= config.freeRatelimit
                   /\ rq'[r].remaining = config.freeRatelimit - stored
                   /\ rq'[r].remaining >= 0
          /\ (rq[r].pc = "RateLimitCheck" /\ rq'[r].rateLimitResult = "allowed")
             => /\ rq[r].userState.kind = "authenticated"
                /\ rq[r].userState.balance > 0
                /\ rq'[r].remaining = rq[r].userState.balance
                /\ rq'[r].rateLimitData = rq[r].rateLimitData
                /\ "ratelimit.get" \notin rq'[r].ops
                /\ kvRate' = kvRate]_vars

\* C11 witness: a request has just been allowed with the last unit of the
\* quota: the stored count is at the limit and nothing remains; another
\* request, of an account with credit, has been allowed without a count.
C11_Witness ==
    \E r, q \in Reqs :
        /\ rq[r].pc = "Charge"
        /\ rq[r].rateLimitResult = "allowed"
        /\ ~BypassesFreeLimit(rq[r].userState)
        /\ kvRate[rq[r].userState.id].count = config.freeRatelimit
        /\ rq[r].rateLimitData.count = config.freeRatelimit
        /\ rq[r].remaining = 0
        /\ rq[q].rateLimitResult = "allowed"
        /\ BypassesFreeLimit(rq[q].userState)
        /\ rq[q].remaining = rq[q].userState.balance
        /\ "ratelimit.get" \notin rq[q].ops

\* The charge of request r writes the balance of account t in this step.
ChargeStores(r, t) ==
    /\ ch[r].pc = "write"
    /\ ch'[r].pc = "done"
    /\ ch[r].userId = t

\* The payment webhook, which the server routes past the core, writes the
\* balance of account t in this step.
TopUpStores(t) ==
    /\ ch[WebhookSlot].pc = "topup-write"
    /\ ch'[WebhookSlot].pc = "topup-log"
    /\ ch[WebhookSlot].userId = t

\* C12 as stated: the balance of a stored account changes, by a request the
\* core handles, only by a charge, each change lowers it by exactly
\* priceCredit, and the charge read a balance of at least priceCredit.
C12_EveryChangeLowersByPrice ==
    [][\A t \in Tokens :
          (kvUsers[t].exists /\ kvUsers'[t] # kvUsers[t] /\ ~TopUpStores(t))
          => /\ \E r \in Reqs :
                   ChargeStores(r, t) /\ ch[r].user.balance >= config.priceCredit
             /\ kvUsers'[t].balance = kvUsers[t].balance - config.priceCredit]_vars

\* C12: a stored balance changes, by a request the core handles, only by
\* the charge of a request classified authenticated (not OPTIONS, not a
\* cache hit, not sent through the free tier), the charge read a balance of
\* at least priceCredit, and it stores the balance it read minus
\* priceCredit; the account changed carries its own key as access_token, so
\* an account stored without access_token (as handleRegister stores it) is
\* never changed by a charge.  The only other change of a stored balance is
\* the payment webhook's, which stores the balance it read plus the credits.
C12_OnlyChargeWritesReadMinusPrice ==
    [][\A t \in Tokens :
          /\ (TopUpStores(t) /\ kvUsers'[t] # kvUsers[t])
             => kvUsers'[t] = WithBalance(ch[WebhookSlot].user,
                                 ch[WebhookSlot].user.balance
                                   + ch[WebhookSlot].amount)
          /\ (kvUsers[t].exists /\ kvUsers'[t] # kvUsers[t] /\ ~TopUpStores(t))
             => \E r \in Reqs :
                /\ ChargeStores(r, t)
                /\ kvUsers[t].access_token = t
                /\ rq[r].method # "OPTIONS"
                /\ ~rq[r].cacheHit
                /\ rq[r].userState.kind = "authenticated"
                /\ rq[r].userState.id = t
                /\ "ratelimit.set" \notin rq[r].ops
                /\ rq[r].rateLimitResult = "allowed"
                /\ ch[r].user.balance >= config.priceCredit
                /\ kvUsers'[t] = WithBalance(ch[r].user,
                                   ch[r].user.balance - config.priceCredit)]_vars

\* C12 witness: two overlapping charges of one account read the same
\* balance and both stored it minus priceCredit.
C12_Witness ==
    \E r1, r2 \in Reqs :
        /\ r1 # r2
        /\ ch[r1].stored /\ ch[r2].stored
        /\ ch[r1].userId = ch[r2].userId
        /\ ch[r1].user = ch[r2].user
        /\ kvUsers[ch[r1].userId] =
               WithBalance(ch[r1].user, ch[r1].user.balance - config.priceCredit)

\* C13: a request bearing the token of a stored account with balance <= 0 is
\* classified insufficient_balance, is never charged, and once it has ended
\* it was served with status 200 if the free-tier check keyed by its token
\* allowed it and answered 402 if that check found the limit reached.
C13_ZeroBalanceAccountServedWithinQuota ==
    \A r \in Reqs :
        (rq[r].userState.kind = "insufficient_balance" /\ rq[r].pc \in Terminal)
        => /\ rq[r].userState.id = rq[r].token
           /\ ch[r].pc = "idle"
           /\ rq[r].rateLimitResult = "allowed" => rq[r].status = StatusOk
           /\ rq[r].rateLimitResult = "exceeded"
                 => rq[r].status = StatusPaymentRequired

\* C14: a request classified authenticated is past the rate-limit check
\* with the result Allowed, has neither read nor written a rate-limit
\* record, and once handleRequest is past the charge step chargeUser has
\* been called for its account.
C14_AuthenticatedBypassesRateLimiter ==
    \A r \in Reqs :
        (rq[r].userState.kind = "authenticated" /\ rq[r].pc # "RateLimitCheck")
        => /\ rq[r].rateLimitResult = "allowed"
           /\ rq[r].remaining = rq[r].userState.balance
           /\ "ratelimit.get" \notin rq[r].ops
           /\ "ratelimit.set" \notin rq[r].ops
           /\ rq[r].pc \in {"Charge", "Threw"}
           /\ rq[r].pc = "Threw"
                 => ch[r].pc # "idle" /\ ch[r].userId = rq[r].userState.id

\* C14 witness: an authenticated request has been allowed and billed while
\* the rate-limit record stored under its token is at the limit and live.
C14_Witness ==
    \E r \in Reqs :
        /\ rq[r].userState.kind = "authenticated"
        /\ rq[r].pc = "Threw"
        /\ ch[r].stored
        /\ Exhausted(rq[r].userState.id)

\* C15: user-state resolution never rejects a request. With a token, a
\* failed lookup or a missing account gives anonymous with the token as
\* identity; without a token, anonymous with the identity "anonymous"; a
\* found account gives insufficient_balance iff its balance is <= 0 and
\* authenticated otherwise. In every case the request goes on to the
\* rate-limit check, and an anonymous request reads, and then writes, only
\* the rate-limit record of its identity.
C15_UserStateResolutionFailsOpen ==
    [][\A r \in Reqs :
          LET t == rq[r].token
              anon(id) == [kind |-> "anonymous", id |-> id, balance |-> 0]
          IN /\ ClassifyUser(r, TRUE)
                   => /\ rq'[r].userState = anon(t)
                      /\ rq'[r].pc = "RateLimitCheck"
             /\ ClassifyUser(r, FALSE)
                   => /\ rq'[r].pc = "RateLimitCheck"
                      /\ t = NoToken => rq'[r].userState = anon("anonymous")
                      /\ (t # NoToken /\ ~kvUsers[t].exists)
                            => rq'[r].userState = anon(t)
                      /\ (t # NoToken /\ kvUsers[t].exists)
                            => /\ rq'[r].userState.id = kvUsers[t].access_token
                               /\ rq'[r].userState.balance = kvUsers[t].balance
                               /\ rq'[r].userState.kind =
                                     IF kvUsers[t].balance <= 0
                                     THEN "insufficient_balance"
                                     ELSE "authenticated"
             /\ (rq[r].pc = "RateLimitCheck" /\ rq'[r].pc # "RateLimitCheck"
                    /\ rq[r].userState.kind = "anonymous")
                   => /\ "ratelimit.get" \in rq'[r].ops
                      /\ rq'[r].rateLimitData =
                            getRateLimitData(kvRate[rq[r].userState.id], now)
                         \/ rq'[r].rateLimitResult = "err"
             /\ (rq[r].pc = "RateLimitUpdate" /\ rq'[r].pc # "RateLimitUpdate")
                   => \A i \in Ids \ {rq[r].userState.id} :
                         kvRate'[i] = kvRate[i]]_vars

\* C15 witness: the lookup of a stored account with credit failed; the
\* request was classified anonymous under its token, was allowed by the
\* free tier and consumed quota under that token.
C15_Witness ==
    \E r \in Reqs :
        /\ rq[r].token # NoToken
        /\ kvUsers[rq[r].token].exists
        /\ kvUsers[rq[r].token].balance > 0
        /\ rq[r].userState = [kind |-> "anonymous", id |-> rq[r].token,
                              balance |-> 0]
        /\ rq[r].rateLimitResult = "allowed"
        /\ kvRate[rq[r].token].count = rq[r].rateLimitData.count
        /\ rq[r].rateLimitData.count > 0

\* C16: when the store fails on the read or on the write of the free-tier
\* check, the check returns an error and handleRequest answers 402 with
\* "Rate limit check failed"; the step changes no stored value, chargeUser
\* is not called for the request, and the request stays answered: it never
\* goes on to the charge or the handler.
C16_RateLimiterFailsClosed ==
    [][\A r \in Reqs :
          /\ (RateLimitCheck(r, TRUE) \/ RateLimitUpdate(r, TRUE))
                => /\ rq'[r].rateLimitResult = "err"
                   /\ rq'[r].pc = "PaymentRequired"
                   /\ rq'[r].status = StatusPaymentRequired
                   /\ rq'[r].message = CheckFailedMessage
                   /\ ch'[r].pc = "idle"
                   /\ kvRate' = kvRate
                   /\ kvUsers' = kvUsers
                   /\ kvCache' = kvCache
          /\ (rq[r].rateLimitResult = "err" /\ rq'[r].rateLimitResult = "err")
                => rq'[r] = rq[r] /\ ch'[r].pc = "idle"]_vars

\* C16 witness: the write of the rate-limit record failed for a request
\* bearing the token of a stored account; it was answered 402 and the
\* record does not hold the count the write would have stored.
C16_Witness ==
    \E r \in Reqs :
        /\ rq[r].rateLimitResult = "err"
        /\ "ratelimit.set" \in rq[r].ops
        /\ rq[r].token # NoToken
        /\ kvUsers[rq[r].token].exists
        /\ rq[r].status = StatusPaymentRequired
        /\ kvRate[rq[r].userState.id].count = rq[r].rateLimitData.count
        /\ kvRate[rq[r].userState.id].exists
        /\ ch[r].pc = "idle"

C18_DisabledCacheAnswersMiss ==
    \A r \in Reqs :
        (/\ config.cacheSeconds <= 0
         /\ rq[r].pc \in Terminal
         /\ rq[r].method # "OPTIONS"
         /\ kvCache[rq[r].key] = NoEntry
         /\ rq[r].rateLimitResult = "allowed")
        => /\ ~rq[r].cacheHit
           /\ rq[r].status = StatusOk
           /\ rq[r].xcache = "MISS"

\* C19 as claimed: a request whose quota consumption or charge has been
\* persisted and which has ended was answered 200 with the handler's body
\* and X-Cache: MISS, whatever became of the cache write, and what it
\* persisted is still stored.
C19_ServedAfterPersistedConsumption ==
    \A r \in Reqs :
        (/\ rq[r].pc \in Terminal
         /\ \/ ch[r].stored
            \/ /\ "ratelimit.set" \in rq[r].ops
               /\ rq[r].rateLimitResult = "allowed")
        => /\ rq[r].status = StatusOk
           /\ rq[r].body = "body"
           /\ rq[r].xcache = "MISS"

\* C20 as claimed: no failure raised once the rate limiter has let the
\* request through propagates out of handleRequest: the request ends with a
\* 402 response whose message carries the error.
C20_FailureBecomesPaymentRequired ==
    \A r \in Reqs :
        rq[r].thrown # ""
        => /\ rq[r].pc = "PaymentRequired"
           /\ rq[r].status = StatusPaymentRequired
           /\ rq[r].message.kind = "handler_error"

\* C21 as claimed: once a request that the rate limiter let through and
\* whose charge did not fail has ended, the handler's context has been
\* built; it carries a user when the user state is authenticated or
\* insufficient_balance and none when it is anonymous.
C21_ContextCarriesResolvedAccount ==
    \A r \in Reqs :
        (/\ rq[r].pc \in Terminal
         /\ rq[r].rateLimitResult = "allowed"
         /\ ch[r].result \in {"none", "ok"})
        => /\ rq[r].context.built
           /\ rq[r].context.user.exists
                 <=> rq[r].userState.kind # "anonymous"

\* C22: an OPTIONS request is answered at once with status 200 and no body;
\* it has made no store call (no cache read, user lookup, rate-limit read
\* or write), is not classified, is not charged, carries no X-Cache header
\* and reaches no later stage, whatever its token and the store.
C22_OptionsAnsweredBeforeAnyStage ==
    \A r \in Reqs :
        (rq[r].method = "OPTIONS" /\ rq[r].pc # "Idle")
        => /\ rq[r].pc = "Respond"
           /\ rq[r].status = StatusOk
           /\ rq[r].body = ""
           /\ rq[r].xcache = ""
           /\ rq[r].ops = {}
           /\ rq[r].userState = NoState
           /\ rq[r].rateLimitResult = "none"
           /\ ~rq[r].cacheHit
           /\ ch[r].pc = "idle"

\* C22 witness: an OPTIONS request bearing the token of an account with
\* credit was answered while a body is cached under its key and the free
\* tier of its token is used up.
C22_Witness ==
    \E r \in Reqs :
        /\ rq[r].method = "OPTIONS"
        /\ rq[r].pc = "Respond"
        /\ rq[r].token # NoToken
        /\ kvUsers[rq[r].token].exists
        /\ kvUsers[rq[r].token].balance > 0
        /\ CacheResultOf(KvGetCache(rq[r].key)) = "hit"
        /\ Exhausted(rq[r].token)

DistinctNames(entries) ==
    \A i, j \in 1..Len(entries) : entries[i][1] = entries[j][1] => i = j

PairSet(entries) == {entries[i] : i \in 1..Len(entries)}

\* The pairs name=value of a query with distinct names, listed by name.
PairsByName(entries) ==
    LET names == SelectSeq(<<"a", "a=1&b", "b">>,
                     LAMBDA n : \E i \in 1..Len(entries) : entries[i][1] = n)
        valueOf(n) == (CHOOSE e \in PairSet(entries) : e[1] = n)[2]
    IN [i \in 1..Len(names) |-> names[i] \o "=" \o valueOf(names[i])]

\* The strings among the paths, names and values modelled that hold one of
\* the characters ':', '&', '=' that createCacheKey uses as separators.
WithSeparator == {"/x:a=1", "a=1&b", "1&b=2", "1:"}

\* The path, the query names and the query values hold no separator.
SeparatorFree(pathname, entries) ==
    /\ \A i \in 1..Len(pathname) : pathname[i] \notin WithSeparator
    /\ \A i \in 1..Len(entries) :
          entries[i][1] \notin WithSeparator /\ entries[i][2] \notin WithSeparator

\* Two parsed requests differ in pathname, in a query pair or in format.
DifferInKeyPart(r1, r2) ==
    \/ rq[r1].pathname # rq[r2].pathname
    \/ PairSet(rq[r1].searchParams) # PairSet(rq[r2].searchParams)
    \/ rq[r1].format # rq[r2].format

\* C24 as claimed: two requests whose queries have distinct names get
\* different keys whenever they differ in pathname, in a pair or in format.
C24_KeysDifferWheneverPartsDiffer ==
    \A r1, r2 \in Reqs :
        (/\ rq[r1].pc # "Idle" /\ rq[r2].pc # "Idle"
         /\ DistinctNames(rq[r1].searchParams)
         /\ DistinctNames(rq[r2].searchParams)
         /\ DifferInKeyPart(r1, r2))
        => rq[r1].key # rq[r2].key

\* C24: for queries with distinct names the key is
\* cache:v<version>:<pathname>:<pairs listed by name, joined with &>:<format>,
\* so two requests with the same pathname, format and pairs in any order get
\* the same key; another version gives another key; and requests that
\* differ in pathname, in a pair or in format get different keys provided
\* neither path nor query names nor query values hold ':', '&' or '=';
\* a query whose one name holds '=' and '&' (/x?a%3D1%26b=2) gets the key
\* of the query of two plain pairs a=1&b=2.
C24_KeyInvariantUnderReordering ==
    \A r1, r2 \in Reqs :
        (/\ rq[r1].pc # "Idle" /\ rq[r2].pc # "Idle"
         /\ DistinctNames(rq[r1].searchParams)
         /\ DistinctNames(rq[r2].searchParams))
        => /\ rq[r1].key =
                 "cache:v" \o ToString(config.version) \o ":"
                    \o Join(rq[r1].pathname, ".") \o ":"
                    \o Join(PairsByName(rq[r1].searchParams), "&") \o ":"
                    \o rq[r1].format
           /\ ~DifferInKeyPart(r1, r2) => rq[r1].key = rq[r2].key
           /\ createCacheKey([config EXCEPT !.version = config.version + 1],
                  rq[r1].pathname, rq[r1].searchParams, rq[r1].format)
                 # rq[r1].key
           /\ (/\ SeparatorFree(rq[r1].pathname, rq[r1].searchParams)
               /\ SeparatorFree(rq[r2].pathname, rq[r2].searchParams)
               /\ DifferInKeyPart(r1, r2))
                 => rq[r1].key # rq[r2].key
           /\ (/\ rq[r1].pathname = rq[r2].pathname
               /\ rq[r1].format = rq[r2].format
               /\ rq[r1].searchParams = << <<"a=1&b", "2">> >>
               /\ rq[r2].searchParams = << <<"a", "1">>, <<"b", "2">> >>)
                 => rq[r1].key = rq[r2].key

\* C24 witness: /x?b=2&a=1 and /x?a=1&b=2 were both given the key
\* cache:v1:/x:a=1&b=2:json.
C24_Witness ==
    /\ rq[1].searchParams = << <<"b", "2">>, <<"a", "1">> >>
    /\ rq[2].searchParams = << <<"a", "1">>, <<"b", "2">> >>
    /\ rq[1].pathname = <<"/x">> /\ rq[2].pathname = <<"/x">>
    /\ rq[1].key = "cache:v1:/x:a=1&b=2:json"
    /\ rq[2].key = "cache:v1:/x:a=1&b=2:json"

\* C25: the format of a parsed request is html when its path ends in .html
\* and markdown when it ends in .md or .markdown (the extension compared
\* in lower case), whatever the Accept header; otherwise html when the
\* Accept header lists text/html, else markdown when it lists
\* text/markdown, else json.
C25_ExtensionBeforeAcceptHeader ==
    \A r \in Reqs :
        rq[r].pc # "Idle"
        => LET ext == rq[r].pathname[Len(rq[r].pathname)]
               dotted == Len(rq[r].pathname) > 1
               types == {rq[r].acceptHeader[i] :
                            i \in 1..Len(rq[r].acceptHeader)}
           IN rq[r].format =
                 IF dotted /\ ext \in {"html", "HTML"} THEN "html"
                 ELSE IF dotted /\ ext \in {"md", "markdown"} THEN "markdown"
                 ELSE IF "text/html" \in types THEN "html"
                 ELSE IF "text/markdown" \in types THEN "markdown"
                 ELSE "json"

\* C25 witness: /x.md with Accept: text/html is markdown, and /x with
\* Accept: text/markdown, text/html is html.
C25_Witness ==
    /\ rq[1].pathname = <<"/x", "md">>
    /\ rq[1].acceptHeader = <<"text/html">>
    /\ rq[1].format = "markdown"
    /\ rq[2].pathname = <<"/x">>
    /\ rq[2].acceptHeader = <<"text/markdown", "text/html">>
    /\ rq[2].format = "html"

\* C26 as claimed: a request that is neither idle, nor at one of its store
\* calls, nor waiting for its handler has reached Respond or
\* PaymentRequired: the handler call is the only place where a request can
\* stay without a response.
C26_OnlyHandlerCanStallRequest ==
    \A r \in Reqs :
        rq[r].pc \notin {"Idle", "CacheCheck", "ClassifyUser", "RateLimitCheck",
                         "RateLimitUpdate", "Charge", "InvokeHandler",
                         "CacheStore"}
        => rq[r].pc \in {"Respond", "PaymentRequired"}

\* C27: a free-tier check whose read succeeds returns Exceeded exactly when
\* the count, after the expiry rule, is >= freeRatelimit; it then carries
\* the stored record's resetTime, answers 402 and leaves the whole store,
\* so the record's count and resetTime, as it was.
C27_ExceededWritesNothing ==
    [][\A r \in Reqs :
          (/\ rq[r].pc = "RateLimitCheck"
           /\ rq'[r].pc # "RateLimitCheck"
           /\ ~BypassesFreeLimit(rq[r].userState)
           /\ rq'[r].rateLimitResult # "err")
          => LET rec == kvRate[rq[r].userState.id]
                 count == IF ~rec.exists \/ now > rec.resetTime
                          THEN 0 ELSE rec.count
             IN /\ count >= config.freeRatelimit
                      <=> rq'[r].rateLimitResult = "exceeded"
                /\ rq'[r].rateLimitResult = "exceeded"
                      => /\ rec.exists
                         /\ rq'[r].rateLimitData.resetTime = rec.resetTime
                         /\ rq'[r].rateLimitData.count = rec.count
                         /\ rq'[r].pc = "PaymentRequired"
                         /\ rq'[r].status = StatusPaymentRequired
                         /\ "ratelimit.set" \notin rq'[r].ops
                         /\ kvRate' = kvRate
                         /\ kvUsers' = kvUsers
                         /\ kvCache' = kvCache]_vars

\* C27 witness: two requests of one identity were rejected and the record
\* still holds the count freeRatelimit and the resetTime they were given.
C27_Witness ==
    \E r1, r2 \in Reqs :
        /\ r1 # r2
        /\ rq[r1].rateLimitResult = "exceeded"
        /\ rq[r2].rateLimitResult = "exceeded"
        /\ rq[r1].userState.id = rq[r2].userState.id
        /\ kvRate[rq[r1].userState.id] =
              Record(config.freeRatelimit, rq[r1].rateLimitData.resetTime)
        /\ rq[r2].rateLimitData = rq[r1].rateLimitData

\* C28 as claimed: the resetTime of a stored record that has not expired is
\* left unchanged by every step.
C28_LiveResetTimeNeverChanges ==
    [][\A i \in Ids :
          (kvRate[i].exists /\ ~(now > kvRate[i].resetTime))
          => kvRate'[i].resetTime = kvRate[i].resetTime]_vars

\* C28: the resetTime an allowed request stores is the one its own read
\* yielded: the stored record's if that record had not expired at the read,
\* and the time of the read plus the window if the record was absent or
\* expired, in which case the request is allowed and stores count 1.  So
\* a write made while the record is still the live one that was read leaves
\* its resetTime unchanged, and a rejected request writes nothing.
C28_WindowIsFixedFromFirstAllowedRead ==
    [][\A r \in Reqs :
          LET id == rq[r].userState.id
              window == config.freeRateLimitResetSeconds * MsPerSecond
          IN /\ (/\ rq[r].pc = "RateLimitCheck"
                 /\ rq'[r].pc # "RateLimitCheck"
                 /\ ~BypassesFreeLimit(rq[r].userState)
                 /\ rq'[r].rateLimitResult # "err")
                   => IF ~kvRate[id].exists \/ now > kvRate[id].resetTime
                      THEN /\ rq'[r].pc = "RateLimitUpdate"
                           /\ rq'[r].rateLimitData.count = 0
                           /\ rq'[r].rateLimitData.resetTime = now + window
                      ELSE /\ rq'[r].rateLimitData.resetTime = kvRate[id].resetTime
                           /\ kvRate' = kvRate
             /\ (rq[r].pc = "RateLimitUpdate" /\ rq'[r].rateLimitResult = "allowed")
                   => /\ kvRate'[id].resetTime = rq[r].rateLimitData.resetTime
                      /\ kvRate'[id].count = rq[r].rateLimitData.count + 1
                      /\ (/\ kvRate[id].exists
                          /\ ~(now > kvRate[id].resetTime)
                          /\ kvRate[id].resetTime = rq[r].rateLimitData.resetTime)
                            => kvRate'[id].resetTime = kvRate[id].resetTime]_vars

\* C28 witness: the store started with every free tier used up; after the
\* window had passed a request of one identity was allowed and its record
\* now holds count 1 and a later resetTime, while the other identity still
\* has the record it started with.
C28_Witness ==
    \E r \in Reqs, j \in Ids :
        /\ rq[r].rateLimitResult = "allowed"
        /\ ~BypassesFreeLimit(rq[r].userState)
        /\ j # rq[r].userState.id
        /\ kvRate[j] = Record(config.freeRatelimit, MsPerSecond)
        /\ kvRate[rq[r].userState.id] = Record(1, rq[r].rateLimitData.resetTime)
        /\ rq[r].rateLimitData.resetTime > MsPerSecond
        /\ config.freeRatelimit > 1

\* C29 as claimed: when the chargeUser call of a request has failed with
\* InsufficientBalance or NotFound, the request has ended in
\* PaymentRequired with status 402 and the charge stored nothing.
C29_FailedChargeEndsInPaymentRequired ==
    \A r \in Reqs :
        (rq[r].pc # "Idle"
         /\ ch[r].result \in {"InsufficientBalance", "NotFound"})
        => /\ rq[r].pc = "PaymentRequired"
           /\ rq[r].status = StatusPaymentRequired
           /\ ~ch[r].stored

\* C30 as claimed: a body the handler produced with an account in its
\* context is stored under the request's key, where a later request of any
\* caller with that key finds it: once the cache-missing request of an
\* authenticated account has ended with caching enabled, its context
\* carried the account and a read of its key is a hit with its body.
C30_AccountBodyReachesLaterCaller ==
    \A r \in Reqs :
        (/\ rq[r].pc \in Terminal
         /\ rq[r].userState.kind = "authenticated"
         /\ "cache.get" \in rq[r].ops
         /\ ~rq[r].cacheHit
         /\ config.cacheSeconds > 0)
        => /\ rq[r].context.user.exists
           /\ rq[r].body # ""
           /\ CacheResultOf(KvGetCache(rq[r].key)) = "hit"
           /\ FormattedText(KvGetCache(rq[r].key).value, rq[r].format)
                 = rq[r].body

\* C31 as claimed: a request whose charge or quota consumption has been
\* stored and which has ended was answered, with 200 or, when the handler
\* failed, with 402, and what it stored is not undone.
C31_ConsumptionKeptAndRequestAnswered ==
    \A r \in Reqs :
        (/\ rq[r].pc \in Terminal
         /\ \/ ch[r].stored
            \/ /\ "ratelimit.set" \in rq[r].ops
               /\ rq[r].rateLimitResult = "allowed")
        => /\ rq[r].status \in {StatusOk, StatusPaymentRequired}
           /\ rq[r].pc \in {"Respond", "PaymentRequired"}

\* C32 as claimed: a request classified authenticated with a balance below
\* priceCredit has, once ended, been answered 402, its account being
\* unchanged and no rate-limit record touched.
C32_UnderfundedAccountGetsPaymentRequired ==
    \A r \in Reqs :
        (/\ rq[r].pc \in Terminal
         /\ rq[r].userState.kind = "authenticated"
         /\ rq[r].userState.balance < config.priceCredit)
        => /\ rq[r].pc = "PaymentRequired"
           /\ rq[r].status = StatusPaymentRequired
           /\ ~ch[r].stored
           /\ "ratelimit.get" \notin rq[r].ops

\* C33: under every interleaving, every rate-limit count stored is at most
\* freeRatelimit and every stored balance is at least 0.
C33_StoredCountsAndBalancesStayInRange ==
    /\ \A i \in Ids : kvRate[i].count >= 0 /\ kvRate[i].count <= config.freeRatelimit
    /\ \A t \in Tokens : kvUsers[t].balance >= 0
    /\ \A r \in Reqs : ch[r].stored => ch[r].value >= 0

\* C33 witness: two requests of an account were both charged off one read
\* of a balance that covers one charge: more was billed than the balance
\* covers, and the balance stored is 0.
C33_Witness ==
    \E r1, r2 \in Reqs :
        /\ r1 # r2
        /\ ch[r1].stored /\ ch[r2].stored
        /\ ch[r1].userId = ch[r2].userId
        /\ ch[r1].user.balance = config.priceCredit
        /\ ch[r2].user.balance = config.priceCredit
        /\ kvUsers[ch[r1].userId].balance = 0

\* C34 as claimed: two requests for one key that both missed the cache and
\* were both let through by the rate limiter have, once both ended, both
\* been answered 200 with X-Cache: MISS, and the cache holds the body of
\* one of them.
C34_BothMissesReachHandlerAndWrite ==
    \A r1, r2 \in Reqs :
        (/\ r1 # r2
         /\ rq[r1].key = rq[r2].key
         /\ rq[r1].pc \in Terminal /\ rq[r2].pc \in Terminal
         /\ "cache.get" \in rq[r1].ops /\ "cache.get" \in rq[r2].ops
         /\ ~rq[r1].cacheHit /\ ~rq[r2].cacheHit
         /\ rq[r1].rateLimitResult = "allowed"
         /\ rq[r2].rateLimitResult = "allowed")
        => /\ rq[r1].xcache = "MISS" /\ rq[r2].xcache = "MISS"
           /\ kvCache[rq[r1].key].exists
           /\ kvCache[rq[r1].key].value \in {rq[r1].body, rq[r2].body}

\* C35: the write of chargeUser stores the balance chargeUser read less the
\* amount, whatever the account holds at the time of the write, so a top-up
\* stored since the read is not part of the balance stored.
C35_ChargeOverwritesTopUp ==
    [][\A r \in Reqs :
          (ch[r].pc = "write" /\ ch'[r].pc = "done" /\ ch'[r].result = "ok")
          => /\ kvUsers'[ch[r].userId] =
                    WithBalance(ch[r].user, ch[r].user.balance - ch[r].amount)
             /\ (/\ ch[WebhookSlot].stored
                 /\ ch[WebhookSlot].userId = ch[r].userId
                 /\ ch[WebhookSlot].user = ch[r].user
                 /\ kvUsers[ch[r].userId].balance =
                        ch[r].user.balance + ch[WebhookSlot].amount)
                => kvUsers'[ch[r].userId].balance + ch[r].amount
                       + ch[WebhookSlot].amount
                   = kvUsers[ch[r].userId].balance]_vars

\* C35 witness: a webhook read the balance the charge had read and stored
\* its top-up, then the charge stored its own result: the account holds
\* the balance read less the amount, the credits are gone.
C35_Witness ==
    /\ ch[1].stored /\ ch[1].pc = "done" /\ ch[1].amount > 0
    /\ ch[WebhookSlot].stored
    /\ ch[WebhookSlot].userId = ch[1].userId
    /\ ch[WebhookSlot].user = ch[1].user
    /\ calls = 1
    /\ kvUsers[ch[1].userId].balance = ch[1].user.balance - ch[1].amount
    /\ kvUsers[ch[1].userId].balance
           < ch[1].balance0 - ch[1].amount + ch[WebhookSlot].amount

\* C36 as claimed: a request that missed the cache, was let through by the
\* rate limiter and has ended, caching being enabled, was answered 200 and
\* left under its key an entry that expires cacheSeconds after a time not
\* later than now.
C36_MissRunsPipelineAndRewritesEntry ==
    \A r \in Reqs :
        (/\ rq[r].pc \in Terminal
         /\ "cache.get" \in rq[r].ops
         /\ ~rq[r].cacheHit
         /\ rq[r].rateLimitResult = "allowed"
         /\ config.cacheSeconds > 0)
        => /\ rq[r].status = StatusOk
           /\ kvCache[rq[r].key].exists
           /\ kvCache[rq[r].key].expireAt
                  <= now + config.cacheSeconds * MsPerSecond

\* The identity under which the rate limiter files a request that bears
\* no token or a token under which no account was found.
ClientId(r) == IF rq[r].token = NoToken THEN "anonymous" ELSE rq[r].token

\* Tokenless requests allowed in the window of the record stored now.
AllowedTokenless ==
    {r \in Reqs : /\ rq[r].token = NoToken
                  /\ rq[r].method = "GET"
                  /\ rq[r].rateLimitResult = "allowed"
                  /\ "ratelimit.set" \in rq[r].ops
                  /\ rq[r].rateLimitData.resetTime
                         = kvRate["anonymous"].resetTime}

\* C37 as claimed: once freeRatelimit tokenless requests have been allowed
\* in a window that has not expired, the shared record shows the quota
\* used up, so that every further tokenless request is answered 402.
C37_QuotaAllowedOnceIsExhausted ==
    (/\ Cardinality(AllowedTokenless) >= config.freeRatelimit
     /\ kvRate["anonymous"].exists
     /\ ~(now > kvRate["anonymous"].resetTime))
    => Exhausted("anonymous")

\* C37: a request without a token is filed under 'anonymous' and a request
\* with a token under which no account was found under that token; the
\* rate limiter reads the record of that identity, answers 402 when that
\* record is live with a count of freeRatelimit or more, and writes no
\* record but that one.
C37_TokenlessRequestsShareOneRecord ==
    [][\A r \in Reqs :
          /\ (/\ rq[r].pc = "RateLimitCheck"
              /\ rq'[r].pc # "RateLimitCheck"
              /\ rq[r].userState.kind = "anonymous"
              /\ rq'[r].rateLimitResult # "err")
             => /\ rq[r].userState.id = ClientId(r)
                /\ rq'[r].rateLimitData
                       = getRateLimitData(kvRate[ClientId(r)], now)
                /\ Exhausted(ClientId(r))
                   <=> /\ rq'[r].pc = "PaymentRequired"
                       /\ rq'[r].status = StatusPaymentRequired
          /\ (/\ rq[r].pc = "RateLimitUpdate"
              /\ rq'[r].pc # "RateLimitUpdate"
              /\ rq[r].userState.kind = "anonymous")
             => \A i \in Ids \ {ClientId(r)} : kvRate'[i] = kvRate[i]]_vars

\* C37 witness: a tokenless request took the last unit of the quota and
\* another tokenless request was then answered 402 off the same record,
\* the record of the token being untouched.
C37_Witness ==
    \E r1, r2 \in Reqs :
        /\ r1 # r2
        /\ rq[r1].token = NoToken /\ rq[r2].token = NoToken
        /\ rq[r1].rateLimitResult = "allowed"
        /\ "ratelimit.set" \in rq[r1].ops
        /\ rq[r1].rateLimitData.count = config.freeRatelimit
        /\ rq[r2].rateLimitResult = "exceeded"
        /\ rq[r2].status = StatusPaymentRequired
        /\ rq[r2].rateLimitData.count = config.freeRatelimit
        /\ kvRate["anonymous"].count = config.freeRatelimit
        /\ kvRate["t1"] = NoRecord

\* C38 as claimed: a request that reached the handler (it missed the cache,
\* was let through by the rate limiter and was not refused by the charge)
\* has, once ended, been answered 200 with X-Cache: MISS, and while caching
\* is enabled and the entry has not expired, a read of its key is a hit
\* with the body it was answered with.
C38_HandlerResponseServedAndCached ==
    \A r \in Reqs :
        (/\ rq[r].pc \in Terminal
         /\ "cache.get" \in rq[r].ops
         /\ ~rq[r].cacheHit
         /\ rq[r].rateLimitResult = "allowed"
         /\ ch[r].result \notin {"StoreError", "NotFound",
                                 "InsufficientBalance"})
        => /\ rq[r].status = StatusOk
           /\ rq[r].xcache = "MISS"
           /\ (config.cacheSeconds > 0
                   /\ ~(now > kvCache[rq[r].key].expireAt))
              => /\ ServedFromCache(FALSE, KvGetCache(rq[r].key))
                 /\ KvGetCache(rq[r].key).value = rq[r].body

====
